---- MODULE Spec2Model ----
(***************************************************************************)
(* Deck Composition Engine of yugioh-genesys: DeckManager (deck state,     *)
(* zone/copy rules, score, listeners), the YDK codec of DeckStorageService *)
(* and the import flow of the application shell.                            *)
(***************************************************************************)
EXTENDS Integers, Sequences, FiniteSets, TLC

VARIABLES
  deck,       \* DeckManager.deck: [mainDeck, extraDeck, sideDeck, name]
  listeners,  \* DeckManager.listeners: sequence of registered callbacks
  last,       \* the most recent public call: operation, arguments, return value
  calls,      \* listener invocations made by the most recent call, in order
  nops,       \* number of public calls or user events so far
  cardCache,  \* YugiohApiService.cardCache: ids of the cards already fetched
  pending,    \* the YDK imports in flight: the file's content and the ids read from it
  storage,    \* localStorage['yugioh-deck-builder'], and what the last saveDeck returned
  cardSearchUI \* CardSearchUI: filters, debounce timer, searches in flight, results shown

vars == <<deck, listeners, last, calls, nops, cardCache, pending, storage, cardSearchUI>>

----------------------------------------------------------------------------
(* Bounds of the model *)

MaxOps == 4
MaxListeners == 2
MaxPending == 2
MaxEvents == 3
MaxLines == 3       \* lines of a generated YDK file
MaxSearches == 3    \* searches sent to the catalog

----------------------------------------------------------------------------
(* types/Card.ts *)

MAIN == "main"
EXTRA == "extra"
SIDE == "side"
DeckType == {MAIN, EXTRA, SIDE}

\* JavaScript's undefined (an omitted optional argument or field)
Undefined == "undefined"

EXTRA_DECK_TYPES ==
  { "Fusion Monster", "Synchro Monster", "XYZ Monster", "Link Monster",
    "Pendulum Effect Fusion Monster", "Synchro Pendulum Effect Monster",
    "XYZ Pendulum Effect Monster" }

\* Card records of the catalog (id, name, type); Cards are the ones the user picks
\* from search results, CardGamma and the fillers only arrive in imported decks.
CardAlpha == [id |-> 12, name |-> "Alpha", type |-> "Effect Monster"]
CardBeta == [id |-> 7, name |-> "Beta", type |-> "Fusion Monster"]
CardGamma == [id |-> 30, name |-> "Gamma", type |-> "Spell Card"]
Cards == {CardAlpha, CardBeta}
CardIds == {c.id : c \in Cards}

Filler(i) == [id |-> 100 + i, name |-> "Filler", type |-> "Normal Monster"]

----------------------------------------------------------------------------
(* Deck names are strings: sequences of characters *)

MyDeck == <<"M", "y", " ", "D", "e", "c", "k">>
ImportedDeck == <<"I", "m", "p", "o", "r", "t", "e", "d", " ", "D", "e", "c", "k">>
GenesysDeck ==
  <<"Y", "u", "-", "G", "i", "-", "O", "h", "!", " ", "G", "e", "n", "e", "s", "y", "s",
    " ", "D", "e", "c", "k">>

\* names given to setDeckName: empty, blank, plain, padded, the default
NameInputs == {<<>>, <<" ">>, <<"a">>, <<" ", "a", " ">>, MyDeck}

----------------------------------------------------------------------------
(* GenesysService.getCardPoints: the scoring table, name -> points *)

getCardPoints(name) ==
  CASE name = "Alpha" -> 5
    [] name = "Beta" -> 3
    [] OTHER -> 0

----------------------------------------------------------------------------
(* DeckManager: limits *)

MAIN_DECK_LIMIT == 60
EXTRA_DECK_LIMIT == 15
SIDE_DECK_LIMIT == 15
MAX_COPIES == 3

(* DeckManager: private helpers, as functions of the deck state d *)

\* variant: every card is classified for the main deck
getCardDeckType_AlwaysMain(card) == MAIN

getCardDeckType(card) ==
  IF card.type \in EXTRA_DECK_TYPES THEN EXTRA ELSE MAIN

getDeckArray(d, deckType) ==
  CASE deckType = MAIN -> d.mainDeck
    [] deckType = EXTRA -> d.extraDeck
    [] deckType = SIDE -> d.sideDeck
    [] OTHER -> d.mainDeck

\* the deck state with the array getDeckArray(d, deckType) replaced by arr
setDeckArray(d, deckType, arr) ==
  CASE deckType = MAIN -> [d EXCEPT !.mainDeck = arr]
    [] deckType = EXTRA -> [d EXCEPT !.extraDeck = arr]
    [] deckType = SIDE -> [d EXCEPT !.sideDeck = arr]
    [] OTHER -> [d EXCEPT !.mainDeck = arr]

getDeckLimit(deckType) ==
  CASE deckType = MAIN -> MAIN_DECK_LIMIT
    [] deckType = EXTRA -> EXTRA_DECK_LIMIT
    [] deckType = SIDE -> SIDE_DECK_LIMIT
    [] OTHER -> MAIN_DECK_LIMIT

RECURSIVE SumQuantity(_)
SumQuantity(arr) ==
  IF arr = <<>> THEN 0 ELSE Head(arr).quantity + SumQuantity(Tail(arr))

\* variant: counts the entries of the zone, not their quantities
getTotalCardsInDeck_CountsEntries(d, deckType) == Len(getDeckArray(d, deckType))

getTotalCardsInDeck(d, deckType) == SumQuantity(getDeckArray(d, deckType))

\* Array.prototype.findIndex on card id, 1-based; 0 when absent (JS: -1)
findIndex(arr, cardId) ==
  IF \E i \in 1..Len(arr) : arr[i].card.id = cardId
  THEN CHOOSE i \in 1..Len(arr) :
         /\ arr[i].card.id = cardId
         /\ \A j \in 1..(i - 1) : arr[j].card.id # cardId
  ELSE 0

findCardInDeck(d, cardId, deckType) == findIndex(getDeckArray(d, deckType), cardId)

\* variant: the side deck is left out of the score
calculateGenesysPoints_NoSide(d) ==
  LET allDecks == d.mainDeck \o d.extraDeck
      RECURSIVE total(_)
      total(s) == IF s = <<>> THEN 0
                  ELSE getCardPoints(Head(s).card.name) * Head(s).quantity + total(Tail(s))
  IN  total(allDecks)

calculateGenesysPoints(d) ==
  LET allDecks == d.mainDeck \o d.extraDeck \o d.sideDeck
      RECURSIVE total(_)
      total(s) == IF s = <<>> THEN 0
                  ELSE getCardPoints(Head(s).card.name) * Head(s).quantity + total(Tail(s))
  IN  total(allDecks)

getGenesysPoints(d) == calculateGenesysPoints(d)

getDeckState(d) ==
  [mainDeck |-> d.mainDeck, extraDeck |-> d.extraDeck, sideDeck |-> d.sideDeck,
   name |-> d.name, genesysPoints |-> calculateGenesysPoints(d)]

\* variant: the capacity test is > instead of >=
canAddCard_CapacityOffByOne(d, card, overrideDeckType) ==
  LET deckType == IF overrideDeckType # Undefined THEN overrideDeckType
                  ELSE getCardDeckType(card)
      deckArray == getDeckArray(d, deckType)
      existing == findIndex(deckArray, card.id)
  IN  IF getTotalCardsInDeck(d, deckType) > getDeckLimit(deckType)
      THEN [canAdd |-> FALSE, reason |-> "deck is full", suggestedDeckType |-> Undefined]
      ELSE IF existing # 0 /\ deckArray[existing].quantity >= MAX_COPIES
      THEN [canAdd |-> FALSE, reason |-> "Maximum copies reached for this card.",
            suggestedDeckType |-> Undefined]
      ELSE [canAdd |-> TRUE, reason |-> Undefined, suggestedDeckType |-> Undefined]

\* variant: the copy test is > instead of >=
canAddCard_CopiesOffByOne(d, card, overrideDeckType) ==
  LET deckType == IF overrideDeckType # Undefined THEN overrideDeckType
                  ELSE getCardDeckType(card)
      deckArray == getDeckArray(d, deckType)
      existing == findIndex(deckArray, card.id)
  IN  IF getTotalCardsInDeck(d, deckType) >= getDeckLimit(deckType)
      THEN [canAdd |-> FALSE, reason |-> "deck is full", suggestedDeckType |-> Undefined]
      ELSE IF existing # 0 /\ deckArray[existing].quantity > MAX_COPIES
      THEN [canAdd |-> FALSE, reason |-> "Maximum copies reached for this card.",
            suggestedDeckType |-> Undefined]
      ELSE [canAdd |-> TRUE, reason |-> Undefined, suggestedDeckType |-> Undefined]

\* variant: the copies of the card are counted over the three decks
canAddCard_CountsAllZones(d, card, overrideDeckType) ==
  LET deckType == IF overrideDeckType # Undefined THEN overrideDeckType
                  ELSE getCardDeckType(card)
      allDecks == d.mainDeck \o d.extraDeck \o d.sideDeck
      copies == SumQuantity(SelectSeq(allDecks, LAMBDA e : e.card.id = card.id))
  IN  IF getTotalCardsInDeck(d, deckType) >= getDeckLimit(deckType)
      THEN [canAdd |-> FALSE, reason |-> "deck is full", suggestedDeckType |-> Undefined]
      ELSE IF copies >= MAX_COPIES
      THEN [canAdd |-> FALSE, reason |-> "Maximum copies reached for this card.",
            suggestedDeckType |-> Undefined]
      ELSE [canAdd |-> TRUE, reason |-> Undefined, suggestedDeckType |-> Undefined]

canAddCard(d, card, overrideDeckType) ==
  LET deckType == IF overrideDeckType # Undefined THEN overrideDeckType
                  ELSE getCardDeckType(card)
      deckArray == getDeckArray(d, deckType)
      deckLimit == getDeckLimit(deckType)
      existing == findIndex(deckArray, card.id)
  IN  IF getTotalCardsInDeck(d, deckType) >= deckLimit
      THEN [canAdd |-> FALSE, reason |-> "deck is full", suggestedDeckType |-> Undefined]
      ELSE IF existing # 0 /\ deckArray[existing].quantity >= MAX_COPIES
      THEN [canAdd |-> FALSE, reason |-> "Maximum copies reached for this card.",
            suggestedDeckType |-> Undefined]
      ELSE IF overrideDeckType = Undefined /\ deckType = MAIN /\ card.type \in EXTRA_DECK_TYPES
      THEN [canAdd |-> FALSE, reason |-> "This card belongs to the Extra Deck.",
            suggestedDeckType |-> EXTRA]
      ELSE [canAdd |-> TRUE, reason |-> Undefined, suggestedDeckType |-> Undefined]

\* variant: a new entry is pushed even when the card already has one
addCard_AlwaysPush(d, card, deckType) ==
  LET targetDeck == IF deckType # Undefined THEN deckType ELSE getCardDeckType(card)
      deckArray == getDeckArray(d, targetDeck)
  IN  IF ~canAddCard(d, card, targetDeck).canAdd
      THEN [ret |-> FALSE, deck |-> d]
      ELSE [ret |-> TRUE,
            deck |-> setDeckArray(d, targetDeck,
                       Append(deckArray, [card |-> card, quantity |-> 1]))]

\* variant: a new entry is put at the front of the deck
addCard_Prepends(d, card, deckType) ==
  LET targetDeck == IF deckType # Undefined THEN deckType ELSE getCardDeckType(card)
      deckArray == getDeckArray(d, targetDeck)
      existing == findCardInDeck(d, card.id, targetDeck)
  IN  IF ~canAddCard(d, card, targetDeck).canAdd
      THEN [ret |-> FALSE, deck |-> d]
      ELSE IF existing # 0
      THEN [ret |-> TRUE,
            deck |-> setDeckArray(d, targetDeck,
                       [deckArray EXCEPT ![existing].quantity = @ + 1])]
      ELSE [ret |-> TRUE,
            deck |-> setDeckArray(d, targetDeck,
                       <<[card |-> card, quantity |-> 1]>> \o deckArray)]

\* variant: the card is added without asking canAddCard
addCard_NoValidation(d, card, deckType) ==
  LET targetDeck == IF deckType # Undefined THEN deckType ELSE getCardDeckType(card)
      deckArray == getDeckArray(d, targetDeck)
      existing == findCardInDeck(d, card.id, targetDeck)
  IN  IF existing # 0
      THEN [ret |-> TRUE,
            deck |-> setDeckArray(d, targetDeck,
                       [deckArray EXCEPT ![existing].quantity = @ + 1])]
      ELSE [ret |-> TRUE,
            deck |-> setDeckArray(d, targetDeck,
                       Append(deckArray, [card |-> card, quantity |-> 1]))]

\* addCard as a function: the return value and the deck state it leaves
addCard(d, card, deckType) ==
  LET targetDeck == IF deckType # Undefined THEN deckType ELSE getCardDeckType(card)
      deckArray == getDeckArray(d, targetDeck)
      validation == canAddCard(d, card, targetDeck)
      existing == findCardInDeck(d, card.id, targetDeck)
  IN  IF ~validation.canAdd
      THEN [ret |-> FALSE, deck |-> d]
      ELSE IF existing # 0
      THEN [ret |-> TRUE,
            deck |-> setDeckArray(d, targetDeck,
                       [deckArray EXCEPT ![existing].quantity = @ + 1])]
      ELSE [ret |-> TRUE,
            deck |-> setDeckArray(d, targetDeck,
                       Append(deckArray, [card |-> card, quantity |-> 1]))]

\* variant: the entry is looked for in the requested deck only
addCardById_RequestedZoneOnly(d, cardId, deckType) ==
  LET deckArray == getDeckArray(d, deckType)
      found == findIndex(deckArray, cardId)
  IN  IF found = 0
      THEN [ret |-> FALSE, deck |-> d]
      ELSE addCard(d, deckArray[found].card, deckType)

addCardById(d, cardId, deckType) ==
  LET allDecks == d.mainDeck \o d.extraDeck \o d.sideDeck
      found == findIndex(allDecks, cardId)
  IN  IF found = 0
      THEN [ret |-> FALSE, deck |-> d]
      ELSE addCard(d, allDecks[found].card, deckType)

\* Array.prototype.splice(index, 1)
RemoveAt(arr, i) == SubSeq(arr, 1, i - 1) \o SubSeq(arr, i + 1, Len(arr))

\* variant: a single removal always decrements, also at quantity 1
removeCard_DecrementOnly(d, cardId, deckType, removeAll) ==
  LET deckArray == getDeckArray(d, deckType)
      cardIndex == findIndex(deckArray, cardId)
  IN  IF cardIndex = 0
      THEN [ret |-> FALSE, deck |-> d]
      ELSE IF removeAll
      THEN [ret |-> TRUE, deck |-> setDeckArray(d, deckType, RemoveAt(deckArray, cardIndex))]
      ELSE [ret |-> TRUE,
            deck |-> setDeckArray(d, deckType,
                       [deckArray EXCEPT ![cardIndex].quantity = @ - 1])]

\* variant: an id absent from the given deck is removed from the first deck that has it
removeCard_AnyZone(d, cardId, deckType, removeAll) ==
  LET has(z) == \E i \in 1..Len(getDeckArray(d, z)) : getDeckArray(d, z)[i].card.id = cardId
      zone == IF has(deckType) THEN deckType
              ELSE IF has(MAIN) THEN MAIN
              ELSE IF has(EXTRA) THEN EXTRA
              ELSE SIDE
      deckArray == getDeckArray(d, zone)
      cardIndex == findIndex(deckArray, cardId)
  IN  IF cardIndex = 0
      THEN [ret |-> FALSE, deck |-> d]
      ELSE IF removeAll \/ deckArray[cardIndex].quantity = 1
      THEN [ret |-> TRUE, deck |-> setDeckArray(d, zone, RemoveAt(deckArray, cardIndex))]
      ELSE [ret |-> TRUE,
            deck |-> setDeckArray(d, zone,
                       [deckArray EXCEPT ![cardIndex].quantity = @ - 1])]

removeCard(d, cardId, deckType, removeAll) ==
  LET deckArray == getDeckArray(d, deckType)
      cardIndex == findIndex(deckArray, cardId)
  IN  IF cardIndex = 0
      THEN [ret |-> FALSE, deck |-> d]
      ELSE IF removeAll \/ deckArray[cardIndex].quantity = 1
      THEN [ret |-> TRUE, deck |-> setDeckArray(d, deckType, RemoveAt(deckArray, cardIndex))]
      ELSE [ret |-> TRUE,
            deck |-> setDeckArray(d, deckType,
                       [deckArray EXCEPT ![cardIndex].quantity = @ - 1])]

\* variant: the three decks are emptied
clearDeck_AllZones(d, deckType) ==
  [d EXCEPT !.mainDeck = <<>>, !.extraDeck = <<>>, !.sideDeck = <<>>]

clearDeck(d, deckType) == setDeckArray(d, deckType, <<>>)

clearAllDecks(d) == [d EXCEPT !.mainDeck = <<>>, !.extraDeck = <<>>, !.sideDeck = <<>>]

setDeckName(d, name) == [d EXCEPT !.name = name]

\* variant: the entries of the snapshot are appended to the decks already held
loadDeck_Appends(d, deckState) ==
  [mainDeck |-> d.mainDeck \o deckState.mainDeck,
   extraDeck |-> d.extraDeck \o deckState.extraDeck,
   sideDeck |-> d.sideDeck \o deckState.sideDeck, name |-> deckState.name]

loadDeck(d, deckState) ==
  [mainDeck |-> deckState.mainDeck, extraDeck |-> deckState.extraDeck,
   sideDeck |-> deckState.sideDeck, name |-> deckState.name]

\* notifyListeners: every registered callback, in order, gets the deck with its points
notifyListeners(d, ls) ==
  [i \in 1..Len(ls) |-> [callback |-> ls[i], deck |-> getDeckState(d)]]

----------------------------------------------------------------------------
(* JavaScript strings: sequences of characters *)

Whitespace == {" ", "\t", "\n", "\r"}

RECURSIVE TrimStart(_)
TrimStart(s) ==
  IF s # <<>> /\ Head(s) \in Whitespace THEN TrimStart(Tail(s)) ELSE s

RECURSIVE TrimEnd(_)
TrimEnd(s) ==
  IF s # <<>> /\ s[Len(s)] \in Whitespace THEN TrimEnd(SubSeq(s, 1, Len(s) - 1)) ELSE s

Trim(s) == TrimEnd(TrimStart(s))

StartsWith(s, prefix) == Len(s) >= Len(prefix) /\ SubSeq(s, 1, Len(prefix)) = prefix

\* String.prototype.substring(start), start counted from 0
Substring(s, start) == SubSeq(s, start + 1, Len(s))

UpperCase ==
  <<"A", "B", "C", "D", "E", "F", "G", "H", "I", "J", "K", "L", "M",
    "N", "O", "P", "Q", "R", "S", "T", "U", "V", "W", "X", "Y", "Z">>
LowerCase ==
  <<"a", "b", "c", "d", "e", "f", "g", "h", "i", "j", "k", "l", "m",
    "n", "o", "p", "q", "r", "s", "t", "u", "v", "w", "x", "y", "z">>

ToLowerCase(s) ==
  [i \in 1..Len(s) |->
     IF \E k \in 1..Len(UpperCase) : UpperCase[k] = s[i]
     THEN LowerCase[CHOOSE k \in 1..Len(UpperCase) : UpperCase[k] = s[i]]
     ELSE s[i]]

Digits == <<"0", "1", "2", "3", "4", "5", "6", "7", "8", "9">>
IsDigit(c) == \E k \in 1..Len(Digits) : Digits[k] = c
DigitValue(c) == (CHOOSE k \in 1..Len(Digits) : Digits[k] = c) - 1

RECURSIVE NumberToString(_)
\* Number.prototype.toString() of an integer
NumberToString(n) ==
  IF n < 0 THEN <<"-">> \o NumberToString(0 - n)
  ELSE IF n < Len(Digits) THEN <<Digits[n + 1]>>
  ELSE NumberToString(n \div Len(Digits)) \o <<Digits[(n % Len(Digits)) + 1]>>

RECURSIVE DigitPrefixValue(_, _)
\* value of the longest prefix of digits of s, continuing from acc
DigitPrefixValue(s, acc) ==
  IF s # <<>> /\ IsDigit(Head(s))
  THEN DigitPrefixValue(Tail(s), acc * Len(Digits) + DigitValue(Head(s)))
  ELSE acc

\* Number.parseInt(s, 10): leading whitespace, an optional sign, then the longest
\* run of digits; NaN when there is no digit
parseInt(s) ==
  LET t == TrimStart(s)
      signed == t # <<>> /\ Head(t) \in {"+", "-"}
      body == IF signed THEN Tail(t) ELSE t
  IN  IF body = <<>> \/ ~IsDigit(Head(body))
      THEN [isNaN |-> TRUE, value |-> 0]
      ELSE [isNaN |-> FALSE,
            value |-> IF signed /\ Head(t) = "-" THEN 0 - DigitPrefixValue(body, 0)
                      ELSE DigitPrefixValue(body, 0)]

RECURSIVE Join(_, _)
\* Array.prototype.join(sep)
Join(lines, sep) ==
  IF lines = <<>> THEN <<>>
  ELSE IF Len(lines) = 1 THEN lines[1]
  ELSE lines[1] \o sep \o Join(Tail(lines), sep)

RECURSIVE SplitLines(_, _)
\* String.prototype.split(/\r?\n/): cur is the piece being read
SplitLines(s, cur) ==
  IF s = <<>> THEN <<cur>>
  ELSE IF Head(s) = "\n"
  THEN <<IF cur # <<>> /\ cur[Len(cur)] = "\r" THEN SubSeq(cur, 1, Len(cur) - 1) ELSE cur>>
         \o SplitLines(Tail(s), <<>>)
  ELSE SplitLines(Tail(s), Append(cur, Head(s)))

----------------------------------------------------------------------------
(* YugiohApiService.getCardById: the catalog *)

Catalog == Cards \cup {CardGamma} \cup {Filler(i) : i \in 0..19}
CatalogIds == {c.id : c \in Catalog}
CatalogCard(id) == CHOOSE c \in Catalog : c.id = id

\* getCardById(id): the cached card, else the card fetched from the catalog; null
\* when the catalog has no such id (404) or the fetch fails. up is the set of ids
\* whose fetch is answered.
getCardById(id, cache, up) ==
  IF id \in cache \/ (id \in CatalogIds /\ id \in up)
  THEN [found |-> TRUE, card |-> CatalogCard(id)]
  ELSE [found |-> FALSE]

----------------------------------------------------------------------------
(* DeckStorageService: the YDK codec *)

CreatedBy == <<"#", "c", "r", "e", "a", "t", "e", "d", " ", "b", "y">>
HashMain == <<"#", "m", "a", "i", "n">>
HashExtra == <<"#", "e", "x", "t", "r", "a">>
BangSide == <<"!", "s", "i", "d", "e">>

RECURSIVE Repeat(_, _)
Repeat(x, n) == IF n <= 0 THEN <<>> ELSE <<x>> \o Repeat(x, n - 1)

RECURSIVE serializeDeckSection_OncePerEntry(_)
\* variant: one line per entry, whatever its quantity
serializeDeckSection_OncePerEntry(section) ==
  IF section = <<>> THEN <<>>
  ELSE LET cardId == Head(section).card.id
       IN  (IF cardId = 0 THEN <<>> ELSE <<NumberToString(cardId)>>)
             \o serializeDeckSection_OncePerEntry(Tail(section))

RECURSIVE serializeDeckSection(_)
serializeDeckSection(section) ==
  IF section = <<>> THEN <<>>
  ELSE LET cardId == Head(section).card.id
       IN  (IF cardId = 0 THEN <<>>
            ELSE Repeat(NumberToString(cardId), Head(section).quantity))
             \o serializeDeckSection(Tail(section))

buildYdkContent(deckState) ==
  LET deckName == IF Trim(deckState.name) # <<>> THEN Trim(deckState.name) ELSE GenesysDeck
      lines == <<CreatedBy \o <<" ">> \o deckName, HashMain>>
                 \o serializeDeckSection(deckState.mainDeck)
                 \o <<HashExtra>> \o serializeDeckSection(deckState.extraDeck)
                 \o <<BangSide>> \o serializeDeckSection(deckState.sideDeck)
  IN  TrimEnd(Join(lines, <<"\n">>)) \o <<"\n">>

\* one iteration of parseYdkContent's loop over the lines; a deckName of <<>> is
\* undefined
ParseLine(st, rawLine) ==
  LET line == Trim(rawLine)
      lower == ToLowerCase(line)
      cardId == parseInt(line)
  IN  IF line = <<>> THEN st
      ELSE IF StartsWith(line, <<"#">>)
      THEN IF StartsWith(lower, CreatedBy)
           THEN [st EXCEPT !.deckName = Trim(Substring(line, Len(CreatedBy)))]
           ELSE IF StartsWith(lower, HashMain) THEN [st EXCEPT !.currentSection = MAIN]
           ELSE IF StartsWith(lower, HashExtra) THEN [st EXCEPT !.currentSection = EXTRA]
           ELSE st
      ELSE IF StartsWith(line, <<"!">>)
      THEN IF StartsWith(lower, BangSide) THEN [st EXCEPT !.currentSection = SIDE]
           ELSE st
      ELSE IF cardId.isNaN THEN st
      ELSE IF st.currentSection = EXTRA
      THEN [st EXCEPT !.extraIds = Append(@, cardId.value)]
      ELSE IF st.currentSection = SIDE
      THEN [st EXCEPT !.sideIds = Append(@, cardId.value)]
      ELSE [st EXCEPT !.mainIds = Append(@, cardId.value)]

RECURSIVE ParseLines(_, _)
ParseLines(lines, st) ==
  IF lines = <<>> THEN st ELSE ParseLines(Tail(lines), ParseLine(st, Head(lines)))

\* the synchronous part of parseYdkContent: the id lists and the name
ParseIds(content) ==
  ParseLines(SplitLines(content, <<>>),
             [mainIds |-> <<>>, extraIds |-> <<>>, sideIds |-> <<>>,
              currentSection |-> MAIN, deckName |-> <<>>])

RECURSIVE FirstSeen(_, _)
\* the distinct ids in the order of their first occurrence
FirstSeen(ids, order) ==
  IF ids = <<>> THEN order
  ELSE FirstSeen(Tail(ids),
                 IF \E k \in 1..Len(order) : order[k] = Head(ids) THEN order
                 ELSE Append(order, Head(ids)))

Occurrences(ids, id) == Cardinality({k \in 1..Len(ids) : ids[k] = id})

\* buildDeckSectionFromIds leaving out the ids whose lookup returned null
buildDeckSectionFromIds_SkipsMissing(ids, cache, up) ==
  LET order == SelectSeq(FirstSeen(ids, <<>>),
                         LAMBDA id : getCardById(id, cache, up).found)
  IN  [ok |-> TRUE,
       deckCards |-> [k \in 1..Len(order) |->
                        [card |-> getCardById(order[k], cache, up).card,
                         quantity |-> Occurrences(ids, order[k])]],
       fetched |-> {order[k] : k \in 1..Len(order)}]

\* variant: the quantity of an entry is capped at MAX_COPIES
buildDeckSectionFromIds_CapsQuantity(ids, cache, up) ==
  LET order == FirstSeen(ids, <<>>)
      missing == {k \in 1..Len(order) : ~getCardById(order[k], cache, up).found}
      stop == IF missing = {} THEN Len(order) + 1
              ELSE CHOOSE k \in missing : \A j \in missing : k <= j
      capped(n) == IF n > MAX_COPIES THEN MAX_COPIES ELSE n
  IN  IF missing = {}
      THEN [ok |-> TRUE,
            deckCards |-> [k \in 1..Len(order) |->
                             [card |-> getCardById(order[k], cache, up).card,
                              quantity |-> capped(Occurrences(ids, order[k]))]],
            fetched |-> {order[k] : k \in 1..Len(order)}]
      ELSE [ok |-> FALSE, id |-> order[stop],
            fetched |-> {order[k] : k \in 1..(stop - 1)}]

\* buildDeckSectionFromIds: the entries, or the id whose lookup returned null;
\* fetched are the ids looked up with success before that
buildDeckSectionFromIds(ids, cache, up) ==
  LET order == FirstSeen(ids, <<>>)
      missing == {k \in 1..Len(order) : ~getCardById(order[k], cache, up).found}
      stop == IF missing = {} THEN Len(order) + 1
              ELSE CHOOSE k \in missing : \A j \in missing : k <= j
  IN  IF missing = {}
      THEN [ok |-> TRUE,
            deckCards |-> [k \in 1..Len(order) |->
                             [card |-> getCardById(order[k], cache, up).card,
                              quantity |-> Occurrences(ids, order[k])]],
            fetched |-> {order[k] : k \in 1..Len(order)}]
      ELSE [ok |-> FALSE, id |-> order[stop],
            fetched |-> {order[k] : k \in 1..(stop - 1)}]

\* variant: a section with an id that is not found is left empty
parseYdkContent_KeepsResolved(content, cache, up) ==
  LET p == ParseIds(content)
      sections == <<buildDeckSectionFromIds(p.mainIds, cache, up),
                    buildDeckSectionFromIds(p.extraIds, cache, up),
                    buildDeckSectionFromIds(p.sideIds, cache, up)>>
      cards(k) == IF sections[k].ok THEN sections[k].deckCards ELSE <<>>
  IN  {[ok |-> TRUE,
        fetched |-> sections[1].fetched \cup sections[2].fetched \cup sections[3].fetched,
        deckState |-> [mainDeck |-> cards(1), extraDeck |-> cards(2), sideDeck |-> cards(3),
                       name |-> IF p.deckName # <<>> THEN p.deckName ELSE ImportedDeck]]}

\* parseYdkContent after its loop over the lines, with the id lists and the name
\* p it read: the possible results. Promise.all rejects with the error of
\* whichever section fails first, and the other sections' lookups still run.
ResolveIds(p, cache, up) ==
  LET sections == <<buildDeckSectionFromIds(p.mainIds, cache, up),
                    buildDeckSectionFromIds(p.extraIds, cache, up),
                    buildDeckSectionFromIds(p.sideIds, cache, up)>>
      fetched == sections[1].fetched \cup sections[2].fetched \cup sections[3].fetched
  IN  IF \A k \in 1..3 : sections[k].ok
      THEN {[ok |-> TRUE, fetched |-> fetched,
             deckState |-> [mainDeck |-> sections[1].deckCards,
                            extraDeck |-> sections[2].deckCards,
                            sideDeck |-> sections[3].deckCards,
                            name |-> IF p.deckName # <<>> THEN p.deckName
                                     ELSE ImportedDeck]]}
      ELSE {[ok |-> FALSE, fetched |-> fetched, error |-> sections[k].id] :
              k \in {j \in 1..3 : ~sections[j].ok}}

\* parseYdkContent: the loop over the lines, then the lookups
parseYdkContent(content, cache, up) == ResolveIds(ParseIds(content), cache, up)

----------------------------------------------------------------------------
(* Snapshots handed to loadDeck: what the YDK import and the storage loader
   produce (one entry per id in a zone, quantity >= 1, no limit applied) *)

Entry(card, q) == [card |-> card, quantity |-> q]

\* a zone filled exactly to limit: one copy of first, then filler cards
FullZone(first, limit) ==
  <<Entry(first, 1), Entry(Filler(0), 2)>>
    \o [i \in 1..((limit - 3) \div 3) |-> Entry(Filler(i), 3)]

SnapFull ==
  [mainDeck |-> FullZone(CardAlpha, MAIN_DECK_LIMIT),
   extraDeck |-> FullZone(CardBeta, EXTRA_DECK_LIMIT),
   sideDeck |-> FullZone(CardAlpha, SIDE_DECK_LIMIT),
   name |-> ImportedDeck]

SnapSmall ==
  [mainDeck |-> <<Entry(CardAlpha, 2), Entry(CardGamma, 1)>>,
   extraDeck |-> <<Entry(CardBeta, 3)>>,
   sideDeck |-> <<Entry(CardBeta, 1)>>,
   name |-> <<"a">>]

SnapOverCopies ==
  [mainDeck |-> <<Entry(CardAlpha, 4)>>, extraDeck |-> <<>>, sideDeck |-> <<>>,
   name |-> ImportedDeck]

SnapOverCapacity ==
  [mainDeck |-> <<>>,
   extraDeck |-> FullZone(CardBeta, EXTRA_DECK_LIMIT)
                   \o <<Entry(CardAlpha, 1)>>,
   sideDeck |-> <<>>, name |-> ImportedDeck]

\* the same card in the three zones, as a YDK file may list it
SnapCopies ==
  [mainDeck |-> <<Entry(CardBeta, 2)>>, extraDeck |-> <<Entry(CardBeta, 3)>>,
   sideDeck |-> <<Entry(CardBeta, 3)>>, name |-> ImportedDeck]

Snapshots == {SnapFull, SnapSmall, SnapOverCopies, SnapOverCapacity, SnapCopies}

Callbacks == {"cb1", "cb2"}

----------------------------------------------------------------------------
(* localStorage: the slot of the current deck *)

\* a parsed JSON object without one of its properties
Without(object, property) == [f \in DOMAIN object \ {property} |-> object[f]]

\* JSON texts: one that JSON.parse rejects, decks, decks lacking a zone list
JsonInputs ==
  {[syntaxError |-> TRUE]}
    \cup {[syntaxError |-> FALSE, value |-> v] :
            v \in {SnapSmall, SnapOverCopies, Without(SnapSmall, "mainDeck"),
                   Without(SnapSmall, "extraDeck"), Without(SnapOverCopies, "sideDeck")}}

\* localStorage.getItem: no item, or a JSON text
StoredItems == {[present |-> FALSE]} \cup {[present |-> TRUE, json |-> j] : j \in JsonInputs}

ZoneLists == {"mainDeck", "extraDeck", "sideDeck"}

\* DeckStorageService.loadDeck: the stored deck, or null
storageLoadDeck(item) ==
  IF ~item.present THEN [found |-> FALSE]
  ELSE IF item.json.syntaxError THEN [found |-> FALSE]
  ELSE IF \E f \in ZoneLists : f \notin DOMAIN item.json.value THEN [found |-> FALSE]
  ELSE [found |-> TRUE, deckState |-> item.json.value]

\* the slot with no item, and no saveDeck made yet
EmptyStorage == [item |-> [present |-> FALSE], lastWrite |-> "none"]

\* variant: the slot is written only while it is empty
saveDeck_KeepsFirst(st, deckState, ok) ==
  IF ok /\ ~st.item.present
  THEN [item |-> [present |-> TRUE, json |-> [syntaxError |-> FALSE, value |-> deckState]],
        lastWrite |-> "ok"]
  ELSE [st EXCEPT !.lastWrite = IF ok THEN "ok" ELSE "failed"]

\* DeckStorageService.saveDeck: the slot after setItem, which may throw (ok = FALSE)
saveDeck(st, deckState, ok) ==
  IF ok
  THEN [item |-> [present |-> TRUE, json |-> [syntaxError |-> FALSE, value |-> deckState]],
        lastWrite |-> "ok"]
  ELSE [st EXCEPT !.lastWrite = "failed"]

----------------------------------------------------------------------------
(* CardSearchUI: the search panel *)

NoFilters == "none"

\* the panel as constructed: no filter set, no timer, nothing in flight or shown.
\* filters is what buildFilters reads from the fields, timeoutId whether the
\* debounce timer is armed, inFlight the searches awaiting their answer, started
\* the number of searches sent, resultsContainer what the panel shows and for
\* which search
NewSearchUI ==
  [filters |-> NoFilters, timeoutId |-> FALSE, inFlight |-> <<>>, started |-> 0,
   resultsContainer |-> [view |-> "empty", search |-> 0]]

\* what the user types into the search field
Queries == {"a", "b"}

\* the function createDebounce returns: the timer is cleared and set again
debouncedSearch(ui) == [ui EXCEPT !.timeoutId = TRUE]

\* handleSearch up to its await: without filters the results are cleared, else the
\* loading notice is shown and the search is sent
handleSearch(ui) ==
  IF ui.filters = NoFilters
  THEN [ui EXCEPT !.resultsContainer = [view |-> "empty", search |-> ui.started]]
  ELSE [ui EXCEPT !.started = @ + 1,
                  !.inFlight = Append(@, [search |-> ui.started + 1, filters |-> ui.filters]),
                  !.resultsContainer = [view |-> "loading", search |-> ui.started + 1]]

\* handleSearch after its await, for the search inFlight[i]: displayResults, or
\* showError when the search failed
searchAnswered(ui, i, ok) ==
  [ui EXCEPT !.inFlight = RemoveAt(@, i),
             !.resultsContainer = [view |-> IF ok THEN "results" ELSE "error",
                                   search |-> ui.inFlight[i].search]]

----------------------------------------------------------------------------
(* The engine as a state machine: one action per public method *)

NoCall == [op |-> "new"]

Init ==
  /\ deck = [mainDeck |-> <<>>, extraDeck |-> <<>>, sideDeck |-> <<>>, name |-> MyDeck]
  /\ listeners = <<>>
  /\ last = NoCall
  /\ calls = <<>>
  /\ nops = 0
  /\ cardCache = {}
  /\ pending = <<>>
  /\ storage = EmptyStorage
  /\ cardSearchUI = NewSearchUI

\* variant: the listeners are notified before the call's validation, also on failure
Mutate_NotifiesOnFailure(r) ==
  /\ deck' = r.deck
  /\ calls' = notifyListeners(r.deck, listeners)
  /\ UNCHANGED listeners

\* a call that returns r.ret and leaves r.deck, notifying only when it returns true
Mutate(r) ==
  /\ deck' = r.deck
  /\ calls' = IF r.ret THEN notifyListeners(r.deck, listeners) ELSE <<>>
  /\ UNCHANGED listeners

\* variant: the listeners are notified before the mutation is applied
Apply_NotifiesFirst(d) ==
  /\ deck' = d
  /\ calls' = notifyListeners(deck, listeners)
  /\ UNCHANGED listeners

\* a void call that leaves d and always notifies
Apply(d) ==
  /\ deck' = d
  /\ calls' = notifyListeners(d, listeners)
  /\ UNCHANGED listeners

\* one public call of the engine; the catalog and the imports are left alone
Step ==
  /\ nops < MaxOps
  /\ nops' = nops + 1
  /\ UNCHANGED <<cardCache, pending, storage, cardSearchUI>>

CanAddCard(card, deckType) ==
  /\ Step
  /\ last' = [op |-> "canAddCard", card |-> card, deckType |-> deckType,
              ret |-> canAddCard(deck, card, deckType)]
  /\ calls' = <<>>
  /\ UNCHANGED <<deck, listeners>>

AddCard(card, deckType) ==
  /\ Step
  /\ LET r == addCard(deck, card, deckType)
     IN  /\ Mutate(r)
         /\ last' = [op |-> "addCard", card |-> card, deckType |-> deckType, ret |-> r.ret]

AddCardById(cardId, deckType) ==
  /\ Step
  /\ LET r == addCardById(deck, cardId, deckType)
     IN  /\ Mutate(r)
         /\ last' = [op |-> "addCardById", cardId |-> cardId, deckType |-> deckType,
                     ret |-> r.ret]

RemoveCard(cardId, deckType, removeAll) ==
  /\ Step
  /\ LET r == removeCard(deck, cardId, deckType, removeAll)
     IN  /\ Mutate(r)
         /\ last' = [op |-> "removeCard", cardId |-> cardId, deckType |-> deckType,
                     removeAll |-> removeAll, ret |-> r.ret]

ClearDeck(deckType) ==
  /\ Step
  /\ Apply(clearDeck(deck, deckType))
  /\ last' = [op |-> "clearDeck", deckType |-> deckType]

ClearAllDecks ==
  /\ Step
  /\ Apply(clearAllDecks(deck))
  /\ last' = [op |-> "clearAllDecks"]

SetDeckName(name) ==
  /\ Step
  /\ Apply(setDeckName(deck, name))
  /\ last' = [op |-> "setDeckName", name |-> name]

LoadDeck(deckState) ==
  /\ Step
  /\ Apply(loadDeck(deck, deckState))
  /\ last' = [op |-> "loadDeck", deckState |-> deckState]

AddListener(callback) ==
  /\ Step
  /\ Len(listeners) < MaxListeners
  /\ listeners' = Append(listeners, callback)
  /\ last' = [op |-> "addListener", callback |-> callback]
  /\ calls' = <<>>
  /\ UNCHANGED deck

RemoveListener(callback) ==
  /\ Step
  /\ LET index == IF \E i \in 1..Len(listeners) : listeners[i] = callback
                  THEN CHOOSE i \in 1..Len(listeners) :
                         /\ listeners[i] = callback
                         /\ \A j \in 1..(i - 1) : listeners[j] # callback
                  ELSE 0
     IN  listeners' = IF index > 0 THEN RemoveAt(listeners, index) ELSE listeners
  /\ last' = [op |-> "removeListener", callback |-> callback]
  /\ calls' = <<>>
  /\ UNCHANGED deck

Next ==
  \/ \E card \in Cards, deckType \in DeckType \cup {Undefined} : CanAddCard(card, deckType)
  \/ \E card \in Cards, deckType \in DeckType \cup {Undefined} : AddCard(card, deckType)
  \/ \E cardId \in CardIds, deckType \in DeckType : AddCardById(cardId, deckType)
  \/ \E cardId \in CardIds, deckType \in DeckType, removeAll \in BOOLEAN :
       RemoveCard(cardId, deckType, removeAll)
  \/ \E deckType \in DeckType : ClearDeck(deckType)
  \/ ClearAllDecks
  \/ \E name \in NameInputs : SetDeckName(name)
  \/ \E deckState \in Snapshots : LoadDeck(deckState)
  \/ \E callback \in Callbacks : AddListener(callback)
  \/ \E callback \in Callbacks : RemoveListener(callback)

Spec == Init /\ [][Next]_vars

----------------------------------------------------------------------------
(* The engine with listeners that call removeListener while they are notified *)

\* "once" removes itself when it is called, "evict" removes cb1
RemovingCallbacks == {"once", "evict"}

\* the callback a listener hands to removeListener when called, Undefined for none
Removes(callback) ==
  IF callback = "once" THEN "once" ELSE IF callback = "evict" THEN "cb1" ELSE Undefined

\* removeListener on the array ls: indexOf, then splice(index, 1)
removeListener(ls, callback) ==
  LET index == IF \E i \in 1..Len(ls) : ls[i] = callback
               THEN CHOOSE i \in 1..Len(ls) :
                      /\ ls[i] = callback
                      /\ \A j \in 1..(i - 1) : ls[j] # callback
               ELSE 0
  IN  IF index > 0 THEN RemoveAt(ls, index) ELSE ls

RECURSIVE forEach(_, _, _, _, _)
\* this.listeners.forEach(callback => callback(deckWithPoints)): the indices 1..n
\* of the array as it was at the start are visited in order, an index the array no
\* longer has is passed over, and a callback may splice the array meanwhile
forEach(ls, k, n, deckWithPoints, invoked) ==
  IF k > n THEN [listeners |-> ls, invoked |-> invoked]
  ELSE IF k > Len(ls) THEN forEach(ls, k + 1, n, deckWithPoints, invoked)
  ELSE forEach(IF Removes(ls[k]) # Undefined THEN removeListener(ls, Removes(ls[k])) ELSE ls,
               k + 1, n, deckWithPoints,
               Append(invoked, [callback |-> ls[k], deck |-> deckWithPoints]))

\* notifyListeners at the end of a mutation that left d
NotifyEach(d) ==
  LET r == forEach(listeners, 1, Len(listeners), getDeckState(d), <<>>)
  IN  /\ deck' = d
      /\ calls' = r.invoked
      /\ listeners' = r.listeners

SetDeckNameNotify(name) ==
  /\ Step
  /\ NotifyEach(setDeckName(deck, name))
  /\ last' = [op |-> "setDeckName", name |-> name]

AddCardNotify(card, deckType) ==
  /\ Step
  /\ LET r == addCard(deck, card, deckType)
     IN  /\ IF r.ret THEN NotifyEach(r.deck)
            ELSE UNCHANGED <<deck, listeners>> /\ calls' = <<>>
         /\ last' = [op |-> "addCard", card |-> card, deckType |-> deckType, ret |-> r.ret]

NextListeners ==
  \/ \E callback \in Callbacks \cup RemovingCallbacks : AddListener(callback)
  \/ \E callback \in Callbacks \cup RemovingCallbacks : RemoveListener(callback)
  \/ \E name \in {MyDeck, ImportedDeck} : SetDeckNameNotify(name)
  \/ \E card \in Cards : AddCardNotify(card, Undefined)

SpecListeners == Init /\ [][NextListeners]_vars

----------------------------------------------------------------------------
(* The search panel as a state machine *)

\* the panel's events leave the engine and the application alone
SearchEvent == UNCHANGED <<deck, listeners, last, calls, nops, cardCache, pending, storage>>

\* input event on the search field: the debounced search is called
Input(q) ==
  /\ SearchEvent
  /\ cardSearchUI' = debouncedSearch([cardSearchUI EXCEPT !.filters = q])

\* the debounce timer fires 300 ms after the last event: handleSearch
TimerFires ==
  /\ SearchEvent
  /\ cardSearchUI.timeoutId
  /\ cardSearchUI.filters # NoFilters => cardSearchUI.started < MaxSearches
  /\ cardSearchUI' = handleSearch([cardSearchUI EXCEPT !.timeoutId = FALSE])

\* clearAllFilters: the fields are emptied and handleSearch is called at once
ClearAllFilters ==
  /\ SearchEvent
  /\ cardSearchUI' = handleSearch([cardSearchUI EXCEPT !.filters = NoFilters])

\* the catalog answers the search inFlight[i], or the request fails
SearchAnswers(i, ok) ==
  /\ SearchEvent
  /\ i \in 1..Len(cardSearchUI.inFlight)
  /\ cardSearchUI' = searchAnswered(cardSearchUI, i, ok)

NextSearch ==
  \/ \E q \in Queries \cup {NoFilters} : Input(q)
  \/ TimerFires
  \/ ClearAllFilters
  \/ \E i \in 1..MaxSearches, ok \in BOOLEAN : SearchAnswers(i, ok)

SpecSearch == Init /\ [][NextSearch]_vars

----------------------------------------------------------------------------
(* The codec on its own: a deck is exported and the file parsed back, or a
   given file is parsed *)

\* the zones of distinct cards of S, each with 1..MAX_COPIES copies
ZoneInputs(S) ==
  UNION { { [i \in 1..n |-> Entry(f[i], q[i])] :
              f \in {g \in [1..n -> S] : \A i, j \in 1..n : g[i] = g[j] => i = j},
              q \in [1..n -> 1..MAX_COPIES] } :
          n \in 0..Cardinality(S) }

\* decks the engine reaches by addCard and setDeckName
CodecDecks ==
  { [mainDeck |-> m, extraDeck |-> e, sideDeck |-> sd, name |-> n] :
      m \in ZoneInputs({CardAlpha, CardGamma}), e \in ZoneInputs({CardBeta}),
      sd \in ZoneInputs({CardAlpha}), n \in NameInputs }

Text(lines) == Join(lines, <<"\n">>) \o <<"\n">>

FileGood ==
  Text(<<CreatedBy \o <<" ", "a">>, HashMain, NumberToString(12), NumberToString(12),
         HashExtra, NumberToString(7), BangSide, NumberToString(7)>>)

\* names id 999, which the catalog does not have
FileUnknown ==
  Text(<<HashMain, NumberToString(12), NumberToString(999), HashExtra, NumberToString(7)>>)

\* a side deck only
FileSide == Text(<<BangSide, NumberToString(12)>>)

FileInputs == {FileGood, FileUnknown}

\* the files chosen for import in the application
ImportFiles == FileInputs \cup {FileSide}

\* the ids whose fetch may be answered or fail
FetchIds == {CardAlpha.id, CardBeta.id, CardGamma.id}

\* those of them the files name
FileFetchIds == {CardAlpha.id, CardBeta.id}

\* the cache as earlier searches may have left it
CacheInputs == {{}, {CardAlpha.id}}

InitCodec ==
  /\ deck \in CodecDecks
  /\ listeners = <<>>
  /\ last = NoCall
  /\ calls = <<>>
  /\ nops = 0
  /\ cardCache \in CacheInputs
  /\ pending = <<>>
  /\ storage = EmptyStorage
  /\ cardSearchUI = NewSearchUI

\* handleExportDeck: the file content built from getDeckState()
ExportDeck ==
  /\ last.op = "new"
  /\ nops' = nops + 1
  /\ last' = [op |-> "exportDeck", content |-> buildYdkContent(getDeckState(deck))]
  /\ UNCHANGED <<deck, listeners, calls, cardCache, pending, storage, cardSearchUI>>

ParseContent(source, content, up) ==
  /\ nops' = nops + 1
  /\ \E r \in parseYdkContent(content, cardCache, up) :
       /\ last' = [op |-> "parseYdkContent", source |-> source, content |-> content,
                   up |-> up, ret |-> r]
       /\ cardCache' = cardCache \cup r.fetched
  /\ UNCHANGED <<deck, listeners, calls, pending, storage, cardSearchUI>>

\* the exported file is parsed
ParseExported(up) ==
  /\ last.op = "exportDeck"
  /\ ParseContent("export", last.content, up)

\* a given file is parsed
ParseFile(content, up) ==
  /\ last.op = "new"
  /\ ParseContent("file", content, up)

NextCodec ==
  \/ ExportDeck
  \/ \E up \in SUBSET FetchIds : ParseExported(up)
  \/ \E content \in FileInputs, up \in SUBSET FileFetchIds : ParseFile(content, up)

SpecCodec == InitCodec /\ [][NextCodec]_vars

----------------------------------------------------------------------------
(* parseYdkContent on files given line by line *)

\* the lines a file is made of: card ids, plain and padded, section markers in
\* either case, other '#' and '!' lines, a blank line, and lines that are no integer
LineInputs ==
  { NumberToString(12), <<" ">> \o NumberToString(7) \o <<" ">>,
    HashExtra, <<"#", "M", "a", "i", "n">>, BangSide,
    <<"#", "x">>, <<"!", "x">>, <<>>, <<"x">>,
    NumberToString(12) \o <<"a", "b", "c">> }

LineFiles == UNION {{Text(lines) : lines \in [1..n -> LineInputs]} : n \in 0..MaxLines}

\* more copies of a card than the engine allows, and more cards than a zone holds
FileOver ==
  Text(<<NumberToString(12), NumberToString(7), NumberToString(12), NumberToString(12),
         NumberToString(12), BangSide>> \o Repeat(NumberToString(7), SIDE_DECK_LIMIT + 1))

ParseFiles == LineFiles \cup FileInputs \cup {FileOver}

InitParse ==
  /\ deck = [mainDeck |-> <<>>, extraDeck |-> <<>>, sideDeck |-> <<>>, name |-> MyDeck]
  /\ listeners = <<>>
  /\ last = NoCall
  /\ calls = <<>>
  /\ nops = 0
  /\ cardCache \in CacheInputs
  /\ pending = <<>>
  /\ storage = EmptyStorage
  /\ cardSearchUI = NewSearchUI

\* each file is parsed once
NextParse ==
  /\ last.op = "new"
  /\ \E content \in ParseFiles, up \in SUBSET FileFetchIds : ParseFile(content, up)

SpecParse == InitParse /\ [][NextParse]_vars

----------------------------------------------------------------------------
(* The application shell (YugiohDeckBuilderApp): user events on the engine and
   the asynchronous YDK import *)

AppListener == "app"

EmptyDeck == [mainDeck |-> <<>>, extraDeck |-> <<>>, sideDeck |-> <<>>, name |-> MyDeck]

\* what the slot holds when the application starts: nothing, a deck, a deck
\* lacking a zone list
AppStoredItems ==
  {item \in StoredItems :
     \/ ~item.present
     \/ /\ ~item.json.syntaxError
        /\ item.json.value \in {SnapSmall, Without(SnapSmall, "mainDeck")}}

\* the deck of a new engine after initializeApp read item from the slot
StartDeck(item) ==
  LET savedDeck == storageLoadDeck(item)
  IN  IF savedDeck.found THEN loadDeck(EmptyDeck, savedDeck.deckState) ELSE EmptyDeck

\* initializeApp: the saved deck, when there is one, is loaded; then the listener
\* is registered
InitApp ==
  /\ \E item \in AppStoredItems :
       /\ storage = [item |-> item, lastWrite |-> "none"]
       /\ deck = StartDeck(item)
  /\ listeners = <<AppListener>>
  /\ last = NoCall
  /\ calls = <<>>
  /\ nops = 0
  /\ cardCache = {}
  /\ pending = <<>>
  /\ cardSearchUI = NewSearchUI

UserEvent == nops < MaxEvents /\ nops' = nops + 1 /\ UNCHANGED cardSearchUI

RECURSIVE SaveAll(_, _, _)
\* the application's listener calls saveDeck with every deck it is handed
SaveAll(st, cs, oks) ==
  IF cs = <<>> THEN st
  ELSE SaveAll(IF Head(cs).callback = AppListener THEN saveDeck(st, Head(cs).deck, Head(oks))
               ELSE st,
               Tail(cs), Tail(oks))

\* the slot after the notifications of this step; each setItem may throw
Autosave == \E oks \in [1..Len(calls') -> BOOLEAN] : storage' = SaveAll(storage, calls', oks)

\* the page is loaded again: a new engine, an empty cache, no import in flight,
\* and initializeApp on what the slot holds
Restart ==
  /\ UserEvent
  /\ deck' = StartDeck(storage.item)
  /\ listeners' = <<AppListener>>
  /\ calls' = <<>>
  /\ cardCache' = {}
  /\ pending' = <<>>
  /\ storage' = [storage EXCEPT !.lastWrite = "none"]
  /\ last' = [op |-> "initializeApp", savedDeck |-> storageLoadDeck(storage.item)]

HandleCardSelect(card) ==
  /\ UserEvent
  /\ LET canAdd == canAddCard(deck, card, Undefined)
         direct == addCard(deck, card, Undefined)
         suggested == addCard(deck, card, canAdd.suggestedDeckType)
         r == IF canAdd.canAdd THEN direct
              ELSE IF /\ canAdd.suggestedDeckType # Undefined
                      /\ canAddCard(deck, card, canAdd.suggestedDeckType).canAdd
              THEN suggested
              ELSE [ret |-> FALSE, deck |-> deck]
     IN  /\ Mutate(r)
         /\ last' = [op |-> "handleCardSelect", card |-> card, ret |-> r.ret]
  /\ Autosave
  /\ UNCHANGED <<cardCache, pending>>

\* DeckDisplayUI shows one add and two remove buttons per entry of the deck it was
\* last handed, so these events name an entry of the deck
Displayed(cardId, deckType) == findCardInDeck(deck, cardId, deckType) # 0

HandleAddCard(cardId, deckType) ==
  /\ UserEvent
  /\ Displayed(cardId, deckType)
  /\ LET r == addCardById(deck, cardId, deckType)
     IN  /\ Mutate(r)
         /\ last' = [op |-> "handleAddCard", cardId |-> cardId, deckType |-> deckType,
                     ret |-> r.ret]
  /\ Autosave
  /\ UNCHANGED <<cardCache, pending>>

HandleRemoveCard(cardId, deckType, removeAll) ==
  /\ UserEvent
  /\ Displayed(cardId, deckType)
  /\ LET r == removeCard(deck, cardId, deckType, removeAll)
     IN  /\ Mutate(r)
         /\ last' = [op |-> "handleRemoveCard", cardId |-> cardId, deckType |-> deckType,
                     removeAll |-> removeAll, ret |-> r.ret]
  /\ Autosave
  /\ UNCHANGED <<cardCache, pending>>

\* the reset is confirmed: clearAllDecks, then setDeckName('My Deck')
HandleNewDeck ==
  /\ UserEvent
  /\ LET cleared == clearAllDecks(deck)
         named == setDeckName(cleared, MyDeck)
     IN  /\ deck' = named
         /\ calls' = notifyListeners(cleared, listeners) \o notifyListeners(named, listeners)
  /\ last' = [op |-> "handleNewDeck"]
  /\ Autosave
  /\ UNCHANGED <<listeners, cardCache, pending>>

\* what the name field holds when it is committed: blanks, a padded name
FieldInputs == {<<" ">>, <<" ", "a", " ">>}

\* commitDeckName: the input's value is trimmed, and 'My Deck' when that is empty
CommitDeckName(value) ==
  /\ UserEvent
  /\ Apply(setDeckName(deck, IF Trim(value) # <<>> THEN Trim(value) ELSE MyDeck))
  /\ last' = [op |-> "commitDeckName", value |-> value]
  /\ Autosave
  /\ UNCHANGED <<cardCache, pending>>

\* handleImportDeck: a file is chosen and read, and parseYdkContent has run its loop
\* over the lines; the lookups are in flight
HandleImportDeck(content) ==
  /\ UserEvent
  /\ Len(pending) < MaxPending
  /\ pending' = Append(pending, [content |-> content, p |-> ParseIds(content)])
  /\ last' = [op |-> "handleImportDeck", content |-> content]
  /\ calls' = <<>>
  /\ UNCHANGED <<deck, listeners, cardCache, storage>>

\* the place in pending of the import that completed with success in the step
\* before, 0 when that step was something else
Previous == IF last.op = "importDeck" /\ last.ret.ok THEN last.index ELSE 0

\* variant: the deck is loaded only when no import started later is in flight
ImportSettles_LastStartedWins(i, up) ==
  /\ i \in 1..Len(pending)
  /\ \E r \in ResolveIds(pending[i].p, cardCache, up) :
       /\ last' = [op |-> "importDeck", content |-> pending[i].content, up |-> up, ret |-> r,
                   index |-> i, previous |-> Previous]
       /\ cardCache' = cardCache \cup r.fetched
       /\ IF r.ok /\ i = Len(pending) THEN Apply(loadDeck(deck, r.deckState))
          ELSE UNCHANGED <<deck, listeners>> /\ calls' = <<>>
  /\ pending' = RemoveAt(pending, i)
  /\ Autosave
  /\ UNCHANGED <<nops, cardSearchUI>>

\* the import of pending[i] completes: importDeckFromFile resolves and the deck is
\* loaded, or it rejects and only a message is shown
ImportSettles(i, up) ==
  /\ i \in 1..Len(pending)
  /\ \E r \in ResolveIds(pending[i].p, cardCache, up) :
       /\ last' = [op |-> "importDeck", content |-> pending[i].content, up |-> up, ret |-> r,
                   index |-> i, previous |-> Previous]
       /\ cardCache' = cardCache \cup r.fetched
       /\ IF r.ok THEN Apply(loadDeck(deck, r.deckState))
          ELSE UNCHANGED <<deck, listeners>> /\ calls' = <<>>
  /\ pending' = RemoveAt(pending, i)
  /\ Autosave
  /\ UNCHANGED <<nops, cardSearchUI>>

NextApp ==
  \/ \E card \in Cards : HandleCardSelect(card)
  \/ \E cardId \in CardIds, deckType \in DeckType : HandleAddCard(cardId, deckType)
  \/ \E cardId \in CardIds, deckType \in DeckType, removeAll \in BOOLEAN :
       HandleRemoveCard(cardId, deckType, removeAll)
  \/ HandleNewDeck
  \/ \E value \in FieldInputs : CommitDeckName(value)
  \/ \E content \in ImportFiles : HandleImportDeck(content)
  \/ \E i \in 1..MaxPending, up \in SUBSET FileFetchIds : ImportSettles(i, up)
  \/ Restart

AppSpec == InitApp /\ [][NextApp]_vars

----------------------------------------------------------------------------
(* The engine and its clients: snapshots handed out by getDeckState and by the
   notifications, snapshots handed in as JSON text or from localStorage *)

\* variant: a zone list that is missing is taken to be empty
importDeck_DefaultsMissing(d, jsonString) ==
  IF jsonString.syntaxError THEN [ret |-> FALSE, deck |-> d]
  ELSE LET deckState == jsonString.value
           zone(f) == IF f \in DOMAIN deckState THEN deckState[f] ELSE <<>>
       IN  [ret |-> TRUE,
            deck |-> [mainDeck |-> zone("mainDeck"), extraDeck |-> zone("extraDeck"),
                      sideDeck |-> zone("sideDeck"), name |-> deckState.name]]

\* DeckManager.importDeck: the return value and the deck state it leaves
importDeck(d, jsonString) ==
  IF jsonString.syntaxError THEN [ret |-> FALSE, deck |-> d]
  ELSE LET deckState == jsonString.value
       IN  IF \E f \in ZoneLists : f \notin DOMAIN deckState
           THEN [ret |-> FALSE, deck |-> d]
           ELSE [ret |-> TRUE, deck |-> loadDeck(d, deckState)]

\* what a holder of a snapshot does to one of its zone arrays
SnapshotWrites == {"push", "quantity"}

\* the snapshot's zone arrays are the engine's own arrays ({ ...this.deck } copies
\* the references), so a write to one of them is a write to the engine's array
writeSnapshot(d, deckType, write) ==
  LET deckArray == getDeckArray(d, deckType)
  IN  IF write = "push"
      THEN setDeckArray(d, deckType, Append(deckArray, [card |-> CardGamma, quantity |-> 1]))
      ELSE IF deckArray # <<>>
      THEN setDeckArray(d, deckType, [deckArray EXCEPT ![1].quantity = @ + 1])
      ELSE d

\* initializeApp, the first thing done to the engine: the stored deck is loaded when
\* there is one, then the application's listener is registered
InitializeApp(item) ==
  /\ Step
  /\ last.op = "new"
  /\ item = storage.item
  /\ LET savedDeck == storageLoadDeck(item)
     IN  /\ deck' = IF savedDeck.found THEN loadDeck(deck, savedDeck.deckState) ELSE deck
         /\ calls' = IF savedDeck.found THEN notifyListeners(deck', listeners) ELSE <<>>
         /\ last' = [op |-> "initializeApp", item |-> item, savedDeck |-> savedDeck]
  /\ listeners' = Append(listeners, AppListener)

ImportDeck(jsonString) ==
  /\ Step
  /\ LET r == importDeck(deck, jsonString)
     IN  /\ Mutate(r)
         /\ last' = [op |-> "importDeckJson", jsonString |-> jsonString, ret |-> r.ret]

GetDeckState ==
  /\ Step
  /\ last' = [op |-> "getDeckState", ret |-> getDeckState(deck)]
  /\ calls' = <<>>
  /\ UNCHANGED <<deck, listeners>>

\* the caller of getDeckState, or a listener just notified, writes to a zone array
\* of the snapshot it holds
SnapshotWrite(deckType, write) ==
  /\ Step
  /\ last.op = "getDeckState" \/ calls # <<>>
  /\ deck' = writeSnapshot(deck, deckType, write)
  /\ last' = [op |-> "snapshotWrite", deckType |-> deckType, write |-> write]
  /\ calls' = <<>>
  /\ UNCHANGED listeners

NextClient ==
  \/ \E item \in StoredItems : InitializeApp(item)
  \/ \E jsonString \in JsonInputs : ImportDeck(jsonString)
  \/ GetDeckState
  \/ \E deckType \in DeckType, write \in SnapshotWrites : SnapshotWrite(deckType, write)
  \/ \E card \in Cards, deckType \in DeckType \cup {Undefined} : AddCard(card, deckType)
  \/ \E deckType \in DeckType : ClearDeck(deckType)
  \/ \E callback \in Callbacks : AddListener(callback)

\* a new engine, with whatever the slot holds
InitClient ==
  /\ deck = EmptyDeck
  /\ listeners = <<>>
  /\ last = NoCall
  /\ calls = <<>>
  /\ nops = 0
  /\ cardCache = {}
  /\ pending = <<>>
  /\ \E item \in StoredItems : storage = [item |-> item, lastWrite |-> "none"]
  /\ cardSearchUI = NewSearchUI

SpecClient == InitClient /\ [][NextClient]_vars

----------------------------------------------------------------------------
(* Properties of the engine *)

\* the entries of a zone, its capacity and its total quantity, stated apart from
\* the engine's own helpers
ZoneOf(d, z) == IF z = MAIN THEN d.mainDeck ELSE IF z = EXTRA THEN d.extraDeck ELSE d.sideDeck

Capacity(z) == IF z = MAIN THEN MAIN_DECK_LIMIT ELSE IF z = EXTRA THEN EXTRA_DECK_LIMIT
               ELSE SIDE_DECK_LIMIT

RECURSIVE TotalUpTo(_, _)
TotalUpTo(arr, n) == IF n = 0 THEN 0 ELSE TotalUpTo(arr, n - 1) + arr[n].quantity

Total(arr) == TotalUpTo(arr, Len(arr))

\* the zone a call addCard(card, deckType) or canAddCard(card, deckType) acts on
ResolvedZone(card, deckType) ==
  IF deckType # Undefined THEN deckType
  ELSE IF card.type \in EXTRA_DECK_TYPES THEN EXTRA ELSE MAIN

HasEntry(arr, cardId) == \E i \in 1..Len(arr) : arr[i].card.id = cardId

\* quantity held for cardId by its first entry in the array (0 when it has none)
QuantityOf(arr, cardId) ==
  IF ~HasEntry(arr, cardId) THEN 0
  ELSE arr[CHOOSE i \in 1..Len(arr) :
             arr[i].card.id = cardId /\ \A j \in 1..(i - 1) : arr[j].card.id # cardId].quantity

LimitsHold(d) ==
  \A z \in DeckType :
    /\ Total(ZoneOf(d, z)) <= Capacity(z)
    /\ \A i \in 1..Len(ZoneOf(d, z)) : ZoneOf(d, z)[i].quantity \in 1..MAX_COPIES

\* C1 (as stated): after any sequence of the public mutating operations, loadDeck
\* included, every zone's total quantity is at most its capacity and every entry's
\* quantity is between 1 and 3.
C1_LimitsAlways == LimitsHold(deck)

\* C1 (amended): every operation other than loadDeck keeps the capacity and the
\* 1..3 quantity bounds when they held before it; loadDeck installs its snapshot
\* unchecked, so the bounds hold after it exactly when the snapshot satisfies them.
C1_LimitsPreserved ==
  [][ /\ last'.op = "loadDeck" => (LimitsHold(deck') <=> LimitsHold(last'.deckState))
      /\ (last'.op # "loadDeck" /\ LimitsHold(deck)) => LimitsHold(deck') ]_vars

\* a successful addCard filled a zone exactly to its capacity, within the limits
C1_Witness ==
  /\ last.op = "addCard" /\ last.ret
  /\ LimitsHold(deck)
  /\ Total(ZoneOf(deck, ResolvedZone(last.card, last.deckType)))
       = Capacity(ResolvedZone(last.card, last.deckType))

\* C2: after every mutation each zone holds at most one entry per distinct card
\* id; adding a card already present in the resolved zone creates no second entry.
C2_OneEntryPerId ==
  \A z \in DeckType :
    \A i, j \in 1..Len(ZoneOf(deck, z)) :
      ZoneOf(deck, z)[i].card.id = ZoneOf(deck, z)[j].card.id => i = j

\* addCard succeeded on a card that already had an entry in the resolved zone
C2_Witness ==
  /\ last.op = "addCard" /\ last.ret
  /\ QuantityOf(ZoneOf(deck, ResolvedZone(last.card, last.deckType)), last.card.id) >= 2

\* C3: addCard on a card that already has 3 copies in the resolved zone returns
\* false and leaves the three zones and the name unchanged.
C3_CopyCapRejects ==
  [][ (/\ last'.op = "addCard"
       /\ QuantityOf(ZoneOf(deck, ResolvedZone(last'.card, last'.deckType)),
                     last'.card.id) = MAX_COPIES)
      => (~last'.ret /\ deck' = deck) ]_vars

\* addCard was rejected by the copy cap alone: the zone is below its capacity
C3_Witness ==
  /\ last.op = "addCard" /\ ~last.ret
  /\ LET z == ResolvedZone(last.card, last.deckType)
     IN  /\ QuantityOf(ZoneOf(deck, z), last.card.id) = MAX_COPIES
         /\ Total(ZoneOf(deck, z)) < Capacity(z)

\* C4: addCard into a zone whose total quantity equals its capacity returns false
\* and leaves the deck state unchanged, whether or not the card has an entry there.
C4_CapacityRejects ==
  [][ (/\ last'.op = "addCard"
       /\ Total(ZoneOf(deck, ResolvedZone(last'.card, last'.deckType)))
            = Capacity(ResolvedZone(last'.card, last'.deckType)))
      => (~last'.ret /\ deck' = deck) ]_vars

\* addCard was rejected by the capacity alone: the card has an entry below the
\* copy cap in the full zone
C4_Witness ==
  /\ last.op = "addCard" /\ ~last.ret
  /\ LET z == ResolvedZone(last.card, last.deckType)
     IN  /\ Total(ZoneOf(deck, z)) = Capacity(z)
         /\ QuantityOf(ZoneOf(deck, z), last.card.id) \in 1..(MAX_COPIES - 1)

\* C5: removeCard with removeAll=false deletes a quantity-1 entry and decrements a
\* larger quantity by exactly 1; with removeAll=true it deletes the entry whatever
\* its quantity; no entry of quantity 0 exists afterward.
C5_RemoveCard ==
  [][ (last'.op = "removeCard" /\ HasEntry(ZoneOf(deck, last'.deckType), last'.cardId))
      => LET before == ZoneOf(deck, last'.deckType)
             after == ZoneOf(deck', last'.deckType)
             q == QuantityOf(before, last'.cardId)
         IN  /\ last'.ret
             /\ (last'.removeAll \/ q = 1) =>
                  (~HasEntry(after, last'.cardId) /\ Len(after) = Len(before) - 1)
             /\ (~last'.removeAll /\ q > 1) =>
                  (QuantityOf(after, last'.cardId) = q - 1 /\ Len(after) = Len(before))
             /\ \A z \in DeckType : \A i \in 1..Len(ZoneOf(deck', z)) :
                  ZoneOf(deck', z)[i].quantity # 0 ]_vars

\* a single-copy removal deleted the entry and left other entries in the zone
C5_Witness ==
  /\ last.op = "removeCard" /\ last.ret /\ ~last.removeAll
  /\ ~HasEntry(ZoneOf(deck, last.deckType), last.cardId)
  /\ ZoneOf(deck, last.deckType) # <<>>

Succeeded ==
  \/ last.op \in {"addCard", "addCardById", "removeCard"} /\ last.ret
  \/ last.op \in {"clearDeck", "clearAllDecks", "setDeckName", "loadDeck"}

Failed == last.op \in {"addCard", "addCardById", "removeCard"} /\ ~last.ret

\* C6: every registered listener is invoked exactly once by a successful mutating
\* call and not at all by an addCard, addCardById or removeCard that returns false.
C6_NotifiedOnce ==
  /\ Succeeded => [i \in 1..Len(calls) |-> calls[i].callback] = listeners
  /\ Failed => calls = <<>>

\* two different listeners are registered and an addCardById succeeded
C6_Witness ==
  /\ last.op = "addCardById" /\ last.ret
  /\ Len(listeners) = 2 /\ listeners[1] # listeners[2]
  /\ Len(calls) = 2

\* C9: canAdd with no explicit zone, for a card whose type is classified Extra,
\* returns allowed=false with suggestedZone=Extra.
C9_SuggestsExtra ==
  (last.op = "canAddCard" /\ last.deckType = Undefined
     /\ last.card.type \in EXTRA_DECK_TYPES)
  => (~last.ret.canAdd /\ last.ret.suggestedDeckType = EXTRA)

RECURSIVE ZoneScore(_, _)
\* points of the first n entries of a zone, counted from the last one
ZoneScore(arr, n) ==
  IF n = 0 THEN 0
  ELSE ZoneScore(arr, n - 1) + arr[n].quantity * getCardPoints(arr[n].card.name)

ExpectedScore(d) ==
  ZoneScore(d.sideDeck, Len(d.sideDeck)) + ZoneScore(d.extraDeck, Len(d.extraDeck))
    + ZoneScore(d.mainDeck, Len(d.mainDeck))

DoubleZone(arr) == [i \in 1..Len(arr) |-> [arr[i] EXCEPT !.quantity = 2 * @]]

Doubled(d) ==
  [d EXCEPT !.mainDeck = DoubleZone(@), !.extraDeck = DoubleZone(@),
            !.sideDeck = DoubleZone(@)]

\* C10: getScore, the score field of getDeckState and the score handed to the
\* listeners equal the sum over all entries of pointsFor(name) * quantity; the empty
\* deck scores 0 and doubling every quantity doubles the score.
C10_Score ==
  /\ getGenesysPoints(deck) = ExpectedScore(deck)
  /\ getDeckState(deck).genesysPoints = ExpectedScore(deck)
  /\ \A i \in 1..Len(calls) : calls[i].deck.genesysPoints = ExpectedScore(deck)
  /\ (deck.mainDeck = <<>> /\ deck.extraDeck = <<>> /\ deck.sideDeck = <<>>)
       => getGenesysPoints(deck) = 0
  /\ getGenesysPoints(Doubled(deck)) = 2 * getGenesysPoints(deck)

\* a listener received a deck with scoring cards in all three zones and a card
\* unknown to the scoring table
C10_Witness ==
  /\ calls # <<>>
  /\ \A z \in DeckType : ZoneScore(ZoneOf(deck, z), Len(ZoneOf(deck, z))) > 0
  /\ \E i \in 1..Len(deck.mainDeck) : getCardPoints(deck.mainDeck[i].card.name) = 0

----------------------------------------------------------------------------
(* Properties of the engine: notification, lookups by id, names, loadDeck,
   placement *)

\* the deck a listener was handed shows the three zones and the name of d
Shows(snapshot, d) ==
  /\ \A z \in DeckType : ZoneOf(snapshot, z) = ZoneOf(d, z)
  /\ snapshot.name = d.name

\* C11: on a successful mutation the listeners are invoked in registration order
\* after the mutation is complete: each receives the zones and the name the deck
\* has after the call and the score of that deck; none sees the deck of before or
\* a deck with only part of the operation applied.
C11_NotifiedAfter ==
  /\ Len(calls) \in {0, Len(listeners)}
  /\ \A i \in 1..Len(calls) :
       /\ calls[i].callback = listeners[i]
       /\ Shows(calls[i].deck, deck)
       /\ calls[i].deck.genesysPoints = ExpectedScore(deck)

\* clearAllDecks notified two different listeners
C11_Witness ==
  /\ last.op = "clearAllDecks"
  /\ Len(calls) = 2
  /\ calls[1].callback # calls[2].callback
  /\ calls[1].deck.mainDeck = <<>> /\ calls[2].deck.sideDeck = <<>>

\* the zones in which d has an entry for cardId
ZonesWith(d, cardId) == {z \in DeckType : HasEntry(ZoneOf(d, z), cardId)}

\* the card of the first entry for cardId, looking in main, extra, side
FoundCard(d, cardId) ==
  LET z == IF MAIN \in ZonesWith(d, cardId) THEN MAIN
           ELSE IF EXTRA \in ZonesWith(d, cardId) THEN EXTRA ELSE SIDE
      arr == ZoneOf(d, z)
  IN  arr[CHOOSE i \in 1..Len(arr) :
            arr[i].card.id = cardId /\ \A j \in 1..(i - 1) : arr[j].card.id # cardId].card

\* C13: addCardById returns false and changes nothing when no zone has an entry
\* for the id; when some zone has one, the requested zone or another, it returns
\* and leaves what addCard(found card, requested zone) returns and leaves.
C13_AddCardById ==
  [][ last'.op = "addCardById" =>
        IF ZonesWith(deck, last'.cardId) = {}
        THEN ~last'.ret /\ deck' = deck /\ calls' = <<>>
        ELSE /\ last'.ret = addCard(deck, FoundCard(deck, last'.cardId), last'.deckType).ret
             /\ deck' = addCard(deck, FoundCard(deck, last'.cardId), last'.deckType).deck ]_vars

\* addCardById made the first entry of a zone for a card held in another zone
C13_Witness ==
  /\ last.op = "addCardById" /\ last.ret
  /\ QuantityOf(ZoneOf(deck, last.deckType), last.cardId) = 1
  /\ ZonesWith(deck, last.cardId) # {last.deckType}

\* C14: removeCard of an id with no entry in the given zone returns false and
\* leaves the zones, the name and the listeners alone, and notifies nobody, also
\* when another zone has an entry for that id.
C14_RemoveAbsent ==
  [][ (last'.op = "removeCard" /\ ~HasEntry(ZoneOf(deck, last'.deckType), last'.cardId))
      => (~last'.ret /\ deck' = deck /\ calls' = <<>>) ]_vars

\* removeCard failed on a zone without the id while another zone has it
C14_Witness ==
  /\ last.op = "removeCard" /\ ~last.ret
  /\ ZonesWith(deck, last.cardId) # {}
  /\ last.deckType \notin ZonesWith(deck, last.cardId)

\* trim of a name, and 'My Deck' when that is empty
Normalized(name) ==
  LET isSpace(c) == c \in {" ", "\t", "\n", "\r"}
      first == CHOOSE i \in 1..(Len(name) + 1) :
                 /\ \A j \in 1..(i - 1) : isSpace(name[j])
                 /\ i <= Len(name) => ~isSpace(name[i])
      lastChar == CHOOSE i \in 0..Len(name) :
                    /\ \A j \in (i + 1)..Len(name) : isSpace(name[j])
                    /\ i >= 1 => ~isSpace(name[i])
  IN  IF first > Len(name) THEN MyDeck ELSE SubSeq(name, first, lastChar)

\* C15: after setDeckName(n) the name of the deck, and the name getDeckState
\* returns, is trim(n) when that is not empty and "My Deck" otherwise.
C15_NameNormalized ==
  last.op = "setDeckName" =>
    (deck.name = Normalized(last.name) /\ getDeckState(deck).name = Normalized(last.name))

\* C17: right after loadDeck(snapshot) the deck and getDeckState have exactly the
\* snapshot's three zones and name, whatever the deck held before and whether or
\* not the snapshot is within the capacities and the copy cap.
C17_LoadDeckReplaces ==
  last.op = "loadDeck" =>
    /\ Shows(deck, last.deckState)
    /\ Shows(getDeckState(deck), last.deckState)

\* a snapshot beyond the limits was loaded over a deck of other cards
C17_Witness ==
  /\ last.op = "loadDeck"
  /\ ~LimitsHold(last.deckState)
  /\ nops >= 2
  /\ deck.mainDeck # <<>>
  /\ listeners # <<>>

\* the zone's capacity and the card's copy cap allow one more copy in zone z of d
Room(d, card, z) ==
  /\ Total(ZoneOf(d, z)) < Capacity(z)
  /\ QuantityOf(ZoneOf(d, z), card.id) < MAX_COPIES

\* d with one more copy of card in zone z
WithCopy(d, card, z) ==
  LET arr == ZoneOf(d, z)
      added == IF HasEntry(arr, card.id)
               THEN [i \in 1..Len(arr) |->
                       IF arr[i].card.id = card.id
                       THEN [card |-> arr[i].card, quantity |-> arr[i].quantity + 1]
                       ELSE arr[i]]
               ELSE arr \o <<[card |-> card, quantity |-> 1]>>
  IN  [mainDeck |-> IF z = MAIN THEN added ELSE d.mainDeck,
       extraDeck |-> IF z = EXTRA THEN added ELSE d.extraDeck,
       sideDeck |-> IF z = SIDE THEN added ELSE d.sideDeck,
       name |-> d.name]

\* C19: addCard and canAddCard act on the zone given, whatever the card's type and
\* with no suggested zone, and on the zone of the card's type when none is given:
\* the answer is that zone's capacity and copy test, and a successful addCard adds
\* one copy there and nowhere else. So addCard without a zone leaves the side deck
\* alone, and the main deck too for a card of an extra-deck type.
C19_ZoneResolution ==
  [][ /\ last'.op = "canAddCard" =>
           /\ last'.ret.canAdd = Room(deck, last'.card, ResolvedZone(last'.card, last'.deckType))
           /\ last'.deckType # Undefined => last'.ret.suggestedDeckType = Undefined
      /\ last'.op = "addCard" =>
           /\ last'.ret = Room(deck, last'.card, ResolvedZone(last'.card, last'.deckType))
           /\ deck' = IF last'.ret
                      THEN WithCopy(deck, last'.card, ResolvedZone(last'.card, last'.deckType))
                      ELSE deck
           /\ last'.deckType = Undefined =>
                /\ deck'.sideDeck = deck.sideDeck
                /\ last'.card.type \in EXTRA_DECK_TYPES => deck'.mainDeck = deck.mainDeck ]_vars

\* a card of an extra-deck type was added to the main deck on request, and the
\* side deck holds a card too
C19_Witness ==
  /\ last.op = "addCard" /\ last.ret
  /\ last.deckType = MAIN
  /\ last.card.type \in EXTRA_DECK_TYPES
  /\ HasEntry(deck.mainDeck, last.card.id)
  /\ deck.sideDeck # <<>>

\* the card ids of the entries of a zone, in order
EntryIds(arr) == [i \in 1..Len(arr) |-> arr[i].card.id]

\* the sequence without its k-th element
Dropped(seq, k) == [i \in 1..(Len(seq) - 1) |-> IF i < k THEN seq[i] ELSE seq[i + 1]]

\* C23: a successful addCard raises by exactly 1 the quantity of the card's entry
\* in the resolved zone, every entry keeping its position, or, when the zone has no
\* entry for the card, puts a new entry of quantity 1 at the end of the zone; a
\* successful removeCard leaves the remaining entries in their relative order.
C23_InsertionOrder ==
  [][ /\ (last'.op = "addCard" /\ last'.ret) =>
           LET z == ResolvedZone(last'.card, last'.deckType)
               before == ZoneOf(deck, z)
               after == ZoneOf(deck', z)
           IN  IF HasEntry(before, last'.card.id)
               THEN /\ EntryIds(after) = EntryIds(before)
                    /\ QuantityOf(after, last'.card.id) = QuantityOf(before, last'.card.id) + 1
                    /\ \A i \in 1..Len(before) :
                         before[i].card.id # last'.card.id => after[i] = before[i]
               ELSE /\ Len(after) = Len(before) + 1
                    /\ \A i \in 1..Len(before) : after[i] = before[i]
                    /\ after[Len(after)] = [card |-> last'.card, quantity |-> 1]
      /\ (last'.op = "removeCard" /\ last'.ret) =>
           LET before == ZoneOf(deck, last'.deckType)
               after == ZoneOf(deck', last'.deckType)
           IN  \/ EntryIds(after) = EntryIds(before)
               \/ \E k \in 1..Len(before) :
                    /\ before[k].card.id = last'.cardId
                    /\ after = Dropped(before, k) ]_vars

\* addCard put a new entry behind the entries the zone already had
C23_Witness ==
  /\ last.op = "addCard" /\ last.ret
  /\ LET after == ZoneOf(deck, ResolvedZone(last.card, last.deckType))
     IN  /\ Len(after) >= 2
         /\ after[Len(after)] = [card |-> last.card, quantity |-> 1]

\* the zone a call of the last operation was aimed at
TargetZone(call) ==
  IF call.op = "addCard" THEN ResolvedZone(call.card, call.deckType) ELSE call.deckType

\* C24: addCard, addCardById, removeCard and clearDeck change only the zone they
\* target: the entries of the other two zones and the deck name stay as they were;
\* setDeckName changes only the name and leaves the three zones and the score as
\* they were.
C24_Frame ==
  [][ /\ last'.op \in {"addCard", "addCardById", "removeCard", "clearDeck"} =>
           /\ \A z \in DeckType \ {TargetZone(last')} : ZoneOf(deck', z) = ZoneOf(deck, z)
           /\ deck'.name = deck.name
      /\ last'.op = "setDeckName" =>
           /\ \A z \in DeckType : ZoneOf(deck', z) = ZoneOf(deck, z)
           /\ getGenesysPoints(deck') = getGenesysPoints(deck)
           /\ ExpectedScore(deck') = ExpectedScore(deck) ]_vars

\* clearDeck emptied one zone while the two others hold cards
C24_Witness ==
  /\ last.op = "clearDeck"
  /\ ZoneOf(deck, last.deckType) = <<>>
  /\ \A z \in DeckType \ {last.deckType} : ZoneOf(deck, z) # <<>>

\* C25: in every state and for every card and zone argument, no zone included,
\* addCard returns true exactly when canAddCard asked in the same state with the
\* same arguments allows the card, and it changes the deck exactly when it returns
\* true.
C25_CheckAuthoritative ==
  [][ last'.op = "addCard" =>
        /\ last'.ret = canAddCard(deck, last'.card, last'.deckType).canAdd
        /\ last'.ret = (deck' # deck) ]_vars

\* addCard was called without a zone and refused the card
C25_Witness ==
  /\ last.op = "addCard" /\ ~last.ret
  /\ last.deckType = Undefined
  /\ ~canAddCard(deck, last.card, Undefined).canAdd

\* d with every zone but z emptied
OnlyZone(d, z) ==
  [mainDeck |-> IF z = MAIN THEN d.mainDeck ELSE <<>>,
   extraDeck |-> IF z = EXTRA THEN d.extraDeck ELSE <<>>,
   sideDeck |-> IF z = SIDE THEN d.sideDeck ELSE <<>>,
   name |-> d.name]

\* C26: the copy cap is applied per zone: the answer of canAddCard and of addCard
\* for a zone is the one they give when the other two zones are empty, and
\* addCardById of a card the deck holds succeeds exactly when the zone asked for
\* has room and fewer than 3 copies of it, whatever the other zones hold.
C26_CapPerZone ==
  [][ /\ last'.op = "canAddCard" =>
           last'.ret = canAddCard(OnlyZone(deck, ResolvedZone(last'.card, last'.deckType)),
                                  last'.card, last'.deckType)
      /\ last'.op = "addCard" =>
           last'.ret = addCard(OnlyZone(deck, ResolvedZone(last'.card, last'.deckType)),
                               last'.card, last'.deckType).ret
      /\ (last'.op = "addCardById" /\ ZonesWith(deck, last'.cardId) # {}) =>
           last'.ret = (/\ Total(ZoneOf(deck, last'.deckType)) < Capacity(last'.deckType)
                        /\ QuantityOf(ZoneOf(deck, last'.deckType), last'.cardId)
                             < MAX_COPIES) ]_vars

\* a card was added and the deck now holds 3 copies of it in each of its zones
C26_Witness ==
  /\ last.op \in {"addCard", "addCardById"} /\ last.ret
  /\ \E c \in Cards : \A z \in DeckType : QuantityOf(ZoneOf(deck, z), c.id) = MAX_COPIES

----------------------------------------------------------------------------
(* Properties of the codec and of the import *)

\* the ids and quantities of a zone, in order
ZoneShape(zone) ==
  [i \in 1..Len(zone) |-> [id |-> zone[i].card.id, quantity |-> zone[i].quantity]]

DeckIds(d) ==
  UNION {{ZoneOf(d, z)[i].card.id : i \in 1..Len(ZoneOf(d, z))} : z \in DeckType}

\* the exported file of the deck was parsed with every id of the deck resolved
ExportParsed ==
  /\ last.op = "parseYdkContent"
  /\ last.source = "export"
  /\ DeckIds(deck) \subseteq ((last.up \cup cardCache) \cap CatalogIds)

RoundTripZones ==
  ExportParsed =>
    /\ last.ret.ok
    /\ \A z \in DeckType : ZoneShape(ZoneOf(last.ret.deckState, z)) = ZoneShape(ZoneOf(deck, z))

RoundTripName ==
  ExportParsed => (last.ret.ok /\ last.ret.deckState.name = deck.name)

\* C7: for a deck within the engine's limits whose ids the catalog all resolves,
\* parsing the exported file succeeds and gives a deck with the same name and with
\* the same ids, order and quantities in the main, extra and side zones.
C7_RoundTrip == RoundTripZones /\ RoundTripName

\* a line that is an integer and nothing else: an optional sign, then digits only
IsIntegerLine(t) ==
  /\ t # <<>>
  /\ LET body == IF Head(t) \in {"+", "-"} THEN Tail(t) ELSE t
     IN  body # <<>> /\ \A i \in 1..Len(body) : IsDigit(body[i])

\* the zone a section marker names, Undefined for any other line
MarkerOf(t) ==
  IF StartsWith(ToLowerCase(t), HashMain) THEN MAIN
  ELSE IF StartsWith(ToLowerCase(t), HashExtra) THEN EXTRA
  ELSE IF StartsWith(ToLowerCase(t), BangSide) THEN SIDE
  ELSE Undefined

\* the zone of the most recent section marker before line k, Main when there is none
CurrentZone(lines, k) ==
  LET markers == {j \in 1..(k - 1) : MarkerOf(Trim(lines[j])) # Undefined}
  IN  IF markers = {} THEN MAIN
      ELSE MarkerOf(Trim(lines[CHOOSE j \in markers : \A i \in markers : i <= j]))

\* the ids of the integer lines of zone z, in the order of the lines
ExpectedIds(content, z) ==
  LET lines == SplitLines(content, <<>>)
      at == SelectSeq([k \in 1..Len(lines) |-> k],
                      LAMBDA k : IsIntegerLine(Trim(lines[k])) /\ CurrentZone(lines, k) = z)
  IN  [i \in 1..Len(at) |-> parseInt(Trim(lines[at[i]])).value]

\* one entry per distinct id in the order of first occurrence, with the number of
\* occurrences as its quantity
Collapse(ids) ==
  LET firsts == SelectSeq([k \in 1..Len(ids) |-> k],
                          LAMBDA k : \A j \in 1..(k - 1) : ids[j] # ids[k])
  IN  [i \in 1..Len(firsts) |->
         [id |-> ids[firsts[i]],
          quantity |-> Cardinality({k \in 1..Len(ids) : ids[k] = ids[firsts[i]]})]]

\* a file was parsed and every lookup succeeded
FileParsed == last.op = "parseYdkContent" /\ last.source = "file" /\ last.ret.ok

\* C21: the file is read in a single pass: every integer line gives its id to the
\* zone of the most recent section marker before it (Main when there is none);
\* blank lines, lines that are no integer and other '#' or '!' lines give no id
\* and leave the current zone as it is.
C21_SinglePass ==
  FileParsed =>
    \A z \in DeckType :
      ZoneShape(ZoneOf(last.ret.deckState, z)) = Collapse(ExpectedIds(last.content, z))

\* the id list the loop over the lines built for zone z
ParsedIds(content, z) ==
  LET p == ParseIds(content)
  IN  IF z = MAIN THEN p.mainIds ELSE IF z = EXTRA THEN p.extraIds ELSE p.sideIds

\* C22: each zone's parsed id list is collapsed into one entry per distinct id, in
\* the order of the ids' first occurrence, with the number of occurrences as
\* quantity; the quantity is not capped at 3 and the zone's total is not capped
\* at the zone's capacity.
C22_Collapse ==
  FileParsed =>
    \A z \in DeckType :
      /\ ZoneShape(ZoneOf(last.ret.deckState, z)) = Collapse(ParsedIds(last.content, z))
      /\ Total(ZoneOf(last.ret.deckState, z)) = Len(ParsedIds(last.content, z))

\* a parsed file gave an entry of quantity 4 behind which another id follows, and
\* a side deck of more cards than the zone holds
C22_Witness ==
  /\ FileParsed
  /\ Len(last.ret.deckState.mainDeck) = 2
  /\ last.ret.deckState.mainDeck[1].quantity > MAX_COPIES
  /\ Total(last.ret.deckState.sideDeck) > SIDE_DECK_LIMIT

\* the ids the card lines of a text name
CardLineIds(content) ==
  LET lines == SplitLines(content, <<>>)
      trimmed == [k \in 1..Len(lines) |-> Trim(lines[k])]
      cardLines == {k \in 1..Len(lines) :
                      /\ trimmed[k] # <<>>
                      /\ Head(trimmed[k]) \notin {"#", "!"}
                      /\ ~parseInt(trimmed[k]).isNaN}
  IN  {parseInt(trimmed[k]).value : k \in cardLines}

\* those ids for the files chosen for import, worked out once
FileIds == [content \in ImportFiles |-> CardLineIds(content)]

\* the ids the card lines of a file name
NamedIds(content) ==
  IF content \in DOMAIN FileIds THEN FileIds[content] ELSE CardLineIds(content)

Resolves(id, cache, up) == id \in CatalogIds /\ (id \in cache \/ id \in up)

\* C8: when an import completes whose file names an id that the catalog cannot
\* resolve, the import fails as a whole: the deck and the listeners are what they
\* were, loadDeck is not called and no listener is notified.
C8_FailedImport ==
  [][(/\ last'.op = "importDeck"
      /\ pending' # pending
      /\ \E id \in NamedIds(last'.content) : ~Resolves(id, cardCache, last'.up))
     => (/\ ~last'.ret.ok
         /\ deck' = deck
         /\ listeners' = listeners
         /\ calls' = <<>>)]_vars

\* an import failed after some of its ids had resolved, on an engine holding cards
C8_Witness ==
  /\ last.op = "importDeck"
  /\ ~last.ret.ok
  /\ last.ret.fetched # {}
  /\ deck.mainDeck # <<>>
  /\ listeners # <<>>

\* C16: when any id named in any section of the text cannot be resolved, parsing
\* fails as a whole with an error naming an id that cannot be resolved, and gives
\* no deck, also when other ids or whole other sections were resolved.
C16_AllOrNothing ==
  [][(/\ last'.op = "parseYdkContent"
      /\ \E id \in NamedIds(last'.content) : ~Resolves(id, cardCache, last'.up))
     => (/\ ~last'.ret.ok
         /\ "deckState" \notin DOMAIN last'.ret
         /\ last'.ret.error \in NamedIds(last'.content)
         /\ ~Resolves(last'.ret.error, cardCache, last'.up))]_vars

\* parsing failed although one section was resolved and another was not
C16_Witness ==
  /\ last.op = "parseYdkContent"
  /\ ~last.ret.ok
  /\ last.ret.fetched # {}
  /\ last.ret.error \notin last.ret.fetched

\* the entry of the zone that holds the k-th copy, counting copies entry by entry
EntryOfCopy(zone, k) ==
  CHOOSE i \in 1..Len(zone) : TotalUpTo(zone, i - 1) < k /\ k <= TotalUpTo(zone, i)

\* one line per copy: the ids of the entries in order, each as often as its quantity
CopyLines(zone) ==
  [k \in 1..Total(zone) |-> NumberToString(zone[EntryOfCopy(zone, k)].card.id)]

\* C20: the exported text is the metadata line, the main marker and the main ids,
\* the extra marker and the extra ids, the side marker and the side ids, in this
\* order; the entries of a zone come in their order and an entry of quantity q gives
\* q consecutive lines with its id, so a section has as many id lines as the zone
\* has copies.
C20_SerializeLayout ==
  last.op = "exportDeck" =>
    LET lines == SplitLines(last.content, <<>>)
    IN  /\ StartsWith(lines[1], CreatedBy)
        /\ SubSeq(lines, 2, Len(lines)) =
             <<HashMain>> \o CopyLines(deck.mainDeck)
               \o <<HashExtra>> \o CopyLines(deck.extraDeck)
               \o <<BangSide>> \o CopyLines(deck.sideDeck) \o << <<>> >>

\* a deck with two main entries, one of them of three copies, and cards in the
\* extra and side decks was exported
C20_Witness ==
  /\ last.op = "exportDeck"
  /\ Len(deck.mainDeck) = 2
  /\ deck.mainDeck[1].quantity = 3 /\ deck.mainDeck[2].quantity = 2
  /\ deck.extraDeck # <<>> /\ deck.sideDeck # <<>>

----------------------------------------------------------------------------
(* Properties of the snapshots handed out and handed in *)

\* C12: a write by a listener, or by a caller of getDeckState, to a zone array of
\* the snapshot it was given leaves the engine's deck as it was.
C12_CopyOnNotify == [][last'.op = "snapshotWrite" => deck' = deck]_vars

\* the JSON text, or the stored item, has a deck that lacks a zone list
LacksZoneList(jsonString) ==
  /\ ~jsonString.syntaxError
  /\ \E f \in {"mainDeck", "extraDeck", "sideDeck"} : f \notin DOMAIN jsonString.value

\* C18: a snapshot lacking one of the three zone lists is rejected before loadDeck:
\* importDeck returns false, the storage loader returns no deck, and in both cases
\* the deck is unchanged and no listener is notified.
C18_MalformedRejected ==
  [][ /\ (last'.op = "importDeckJson" /\ LacksZoneList(last'.jsonString))
           => (~last'.ret /\ deck' = deck /\ calls' = <<>>)
      /\ (last'.op = "initializeApp" /\ last'.item.present /\ LacksZoneList(last'.item.json))
           => (~last'.savedDeck.found /\ deck' = deck /\ calls' = <<>>) ]_vars

\* importDeck refused a deck without a zone list on an engine that holds cards
\* and has listeners
C18_Witness ==
  /\ last.op = "importDeckJson"
  /\ LacksZoneList(last.jsonString)
  /\ ~last.ret
  /\ deck.mainDeck # <<>>
  /\ listeners # <<>>

----------------------------------------------------------------------------
(* Properties of the application: autosave and import *)

\* the slot holds a deck that DeckStorageService.loadDeck accepts
ValidStored ==
  /\ storage.item.present
  /\ ~storage.item.json.syntaxError
  /\ {"mainDeck", "extraDeck", "sideDeck"} \subseteq DOMAIN storage.item.json.value

\* C27: with the application's listener registered, after a successful mutation
\* whose storage write succeeded the deck in the slot has the zones and the name
\* of the engine's deck; after a start the engine's deck is the stored deck when a
\* valid one is stored, and has three empty zones otherwise.
C27_Autosave ==
  /\ (calls # <<>> /\ storage.lastWrite = "ok") =>
       (ValidStored /\ Shows(storage.item.json.value, deck))
  /\ last.op \in {"new", "initializeApp"} =>
       IF ValidStored THEN Shows(storage.item.json.value, deck)
       ELSE \A z \in DeckType : ZoneOf(deck, z) = <<>>

\* the application started again on a deck that an earlier mutation had saved
C27_Witness ==
  /\ last.op = "initializeApp"
  /\ ValidStored
  /\ deck.mainDeck # <<>>
  /\ deck.mainDeck # SnapSmall.mainDeck
  /\ Shows(storage.item.json.value, deck)

\* C28: an import is two steps with the engine editable in between: when it
\* completes with success the engine's deck is the imported deck, whatever was
\* done to the engine since the import started, and the listeners are handed that
\* deck; so of two overlapping imports the one that completes last decides the
\* deck, also when it was started first.
C28_ImportLoads ==
  [][ (last'.op = "importDeck" /\ last'.ret.ok) =>
        /\ Shows(deck', last'.ret.deckState)
        /\ \A k \in 1..Len(calls') : Shows(calls'[k].deck, last'.ret.deckState)
        /\ calls' # <<>> ]_vars

\* of two imports in flight the one started later completed first, then the one
\* started first completed, and the engine holds the deck of that one
C28_Witness ==
  /\ last.op = "importDeck" /\ last.ret.ok
  /\ last.previous = 2 /\ last.index = 1
  /\ pending = <<>>
  /\ Shows(deck, last.ret.deckState)
  /\ deck.mainDeck # <<>>

----------------------------------------------------------------------------
(* Properties of the listeners *)

\* how often x occurs in the sequence
CountIn(seq, x) == Cardinality({i \in 1..Len(seq) : seq[i] = x})

Invoked == [i \in 1..Len(calls) |-> calls[i].callback]

\* C29: when a listener calls removeListener, on itself or on another listener,
\* during a notification, every listener registered at its start and not removed
\* by its end is invoked exactly once, and none more often than it was registered;
\* removeListener of a callback that is not registered changes nothing.
C29_RemoveDuringNotify ==
  [][ /\ (last'.op = "setDeckName" \/ (last'.op = "addCard" /\ last'.ret)) =>
           \A c \in Callbacks \cup RemovingCallbacks :
             /\ CountIn(listeners', c) <= CountIn(Invoked', c)
             /\ CountIn(Invoked', c) <= CountIn(listeners, c)
      /\ (last'.op = "removeListener" /\ CountIn(listeners, last'.callback) = 0) =>
           (listeners' = listeners /\ deck' = deck /\ calls' = <<>>) ]_vars

----------------------------------------------------------------------------
(* Properties of the search panel *)

\* the panel shows the answer of a search
ShowsAnswer(ui) == ui.resultsContainer.view \in {"results", "error"}

\* C30: when several searches are in flight at once, what the panel shows once
\* all have answered is the answer of the search started last, and the answer of
\* an older search never replaces the answer of a newer one.
C30_NewestSearchWins ==
  [][ Len(cardSearchUI'.inFlight) < Len(cardSearchUI.inFlight) =>
        /\ cardSearchUI'.inFlight = <<>> =>
             cardSearchUI'.resultsContainer.search = cardSearchUI'.started
        /\ ShowsAnswer(cardSearchUI) =>
             cardSearchUI'.resultsContainer.search >= cardSearchUI.resultsContainer.search
     ]_vars

====
